---- MODULE Spec2Model ----
(***************************************************************************)
(* Model of pysas odfcontrol.py: ODF.setodf, the observation session       *)
(* controller, as a step machine over an abstract file system, the         *)
(* process environment and the external programs it drives.                *)
(*                                                                         *)
(* Strings that name files are kept as token sequences so that the code's  *)
(* string tests (first character, extension, glob patterns) are computed:  *)
(*   a path   is a sequence of names; a leading E marks an absolute path   *)
(*            ('/a/b' = <<E, a, b>>), a trailing E a trailing slash,       *)
(*            <<>> is the empty string and <<E>> is '/';                   *)
(*   a name   is a sequence of tokens ('ccf.cif' = <<"ccf","cif">>).       *)
(* An optional value is None (<<>>) or Some(v) (<<v>>).                    *)
(***************************************************************************)
EXTENDS Integers, Sequences, FiniteSets, TLC

\* ------------------------------------------------------------------ bounds
\* Largest number of lines an observation summary file (*SUM.SAS) holds.
MaxSumLines == 2

\* ------------------------------------------------------- strings and paths
E == <<"">>
Nm(s) == <<s>>
None == <<>>
Some(x) == <<x>>

Front(s) == SubSeq(s, 1, Len(s) - 1)
Last(s) == s[Len(s)]

\* Python truthiness of an optional string: None and '' are false.
Truthy(o) == o # None /\ o[1] # <<>>

\* s[0] == '/'
IsAbs(p) == Len(p) >= 1 /\ p[1] = E
EndsSlash(p) == Len(p) >= 2 /\ Last(p) = E

\* os.path.join(a, b)
Join(a, b) ==
    IF IsAbs(b) THEN b
    ELSE IF b = <<>> THEN (IF EndsSlash(a) \/ a = <<E>> THEN a ELSE a \o <<E>>)
    ELSE (IF EndsSlash(a) THEN Front(a) ELSE a) \o b

\* The file-system key of a path string: a trailing slash names the same entry.
Norm(p) == IF EndsSlash(p) THEN Front(p) ELSE p

IsPrefix(d, p) == Len(d) <= Len(p) /\ SubSeq(p, 1, Len(d)) = d

\* name + '.tar.gz' and friends: string concatenation on the last token list
HasExt(name, ext) == Len(name) >= 2 /\ Last(name) = ext
\* file[:-4], file[:-3]: drop the extension
StripExt(p) == Front(p) \o <<Front(Last(p))>>

\* glob patterns used by the code
IsManifest(name) == name[1] = "MANIFEST"
IsSumSas(name) == Len(name) >= 2 /\ name[Len(name) - 1] = "SUM" /\ Last(name) = "SAS"
IsCcfCif(name) == name = <<"ccf", "cif">>

\* --------------------------------------------------------------- constants
startdir == <<E, Nm("home")>>
ObsId == <<Nm("0123")>>
StageDir == <<E, Nm("c")>>

EnvVars == {"LHEASOFT", "SAS_DIR", "SAS_CCFPATH", "SAS_ODF", "SAS_CCF"}

Dir(o) == [kind |-> "dir", origin |-> o, body |-> <<>>]
File(o, b) == [kind |-> "file", origin |-> o, body |-> b]

\* a summary-file line 'PATH <dir>' after line.split(); other lines hold one token
PATHKEY == <<Nm("PATH")>>
PathLine(p) == <<PATHKEY, p>>

VARIABLES
    args,            \* the parameters of the setodf call
    data_dir,        \* self.data_dir
    level,           \* the local name level (a string, rebound to a list by the esa branch)
    encryption_key,  \* the local name encryption_key
    encrypted,       \* the glob result of encrypted files still to visit
    todo,            \* esa: the levels still to download
    environ,         \* os.environ
    cwd,             \* the process working directory
    fs,              \* the file system: normalised absolute path -> entry
    pc,              \* position in setodf
    outcome,         \* "running", "ok" or the error that ended the run
    log,             \* history of side effects: sequence of [op, arg, rc]
    fs0              \* the file system when setodf was called

vars == <<args, data_dir, level, encryption_key, encrypted, todo, environ, cwd,
          fs, pc, outcome, log, fs0>>

\* ------------------------------------------------------------- file system
Exists(f, p) == Norm(p) \in DOMAIN f
IsDir(f, p) == Exists(f, p) /\ f[Norm(p)].kind = "dir"
IsFile(f, p) == Exists(f, p) /\ f[Norm(p)].kind = "file"
Under(f, d) == {p \in DOMAIN f : IsPrefix(Norm(d), p)}
Restrict(f, S) == [p \in S |-> f[p]]
Put(f, p, e) == [q \in DOMAIN f \cup {Norm(p)} |-> IF q = Norm(p) THEN e ELSE f[q]]
\* the same removing the directory entry alone
RmTreeShallow(f, d) == [p \in DOMAIN f \ {Norm(d)} |-> f[p]]
\* shutil.rmtree(d)
RmTree(f, d) == Restrict(f, DOMAIN f \ Under(f, d))
\* os.remove(p)
Remove(f, p) == Restrict(f, DOMAIN f \ {Norm(p)})
\* every proper ancestor directory of p, and p itself
Ancestors(p) == {SubSeq(p, 1, n) : n \in 1..(Len(p) - 1)}
\* extraction and mirroring create missing directories and replace files
PutTree(f, files, o) ==
    LET ds == UNION {Ancestors(p) : p \in files} \ DOMAIN f
    IN  [q \in DOMAIN f \cup ds \cup files |->
            IF q \in files THEN File(o, <<>>)
            ELSE IF q \in ds THEN Dir(o) ELSE f[q]]

\* a side effect: the operation, its target, and a subprocess's exit status
EvRc(op, arg, rc) == [op |-> op, arg |-> arg, rc |-> rc]
Ev(op, arg) == EvRc(op, arg, 0)


\* -------------------------------------------------- the call and its world
\* obs_dir, odf_dir, pps_dir, working_dir (lines 225-228), for a string odfid
obs_dir == Join(data_dir[1], args.odfid[1])
odf_dir == Join(obs_dir, <<Nm("ODF")>>)
pps_dir == Join(obs_dir, <<Nm("PPS")>>)
working_dir == Join(obs_dir, <<Nm("working")>>)
\* odftar = odfid + '.tar.gz', relative to the working directory
odftar == <<Last(args.odfid[1]) \o <<"tar", "gz">>>>

\* self.data_dir after lines 187-195, for the data_dir parameter dd and the
\* directory sd the process is in
ResolveDataDir(dd, sd) ==
    LET d == IF dd = None THEN sd ELSE dd[1]
    IN  IF ~IsAbs(d) THEN Join(sd, d) ELSE d

CcfName == <<"ccf", "cif">>
SumName == <<"0123", "SUM", "SAS">>
ManifestName == <<"MANIFEST", "0123">>
AbsCcf == StageDir \o <<CcfName>>
AbsSum == StageDir \o <<SumName>>
RelCcf == <<Nm("c"), CcfName>>
RelSum == <<Nm("c"), SumName>>
StagedOdf == StageDir \o <<Nm("ODF")>>
GoneDir == StageDir \o <<Nm("gone")>>
KeyString == <<Nm("s3cr3t")>>

\* lines a summary file may hold, given the directories its PATH may name
OtherLine == <<<<Nm("OBSERVATION")>>, ObsId>>
ShortLine == <<PATHKEY>>
SumLines(dirs) == {PathLine(d) : d \in dirs} \cup {OtherLine, ShortLine}
SumBodies(dirs) == UNION {[1..n -> SumLines(dirs)] : n \in 0..MaxSumLines}

DefaultArgs ==
    [odfid |-> None, data_dir |-> None, level |-> "ODF", sasfiles |-> FALSE,
     sas_ccf |-> None, sas_odf |-> None, encryption_key |-> None,
     overwrite |-> FALSE, repo |-> "esa"]

Levels == {"ODF", "PPS", "ALL", "RAW"}
\* levelopts, line 216
LevelOpts == {"ODF", "PPS", "ALL"}
Repos == {"esa", "heasarc", "sciserver", "local"}
DataDirs == {None, Some(<<Nm("data")>>), Some(<<E, Nm("data")>>)}

NoStage == [files |-> FALSE, body |-> <<>>, manifest |-> FALSE]
OkStage == [files |-> TRUE, body |-> <<PathLine(StagedOdf)>>, manifest |-> TRUE]
Stages ==
    {NoStage} \cup
    {[files |-> TRUE, body |-> b, manifest |-> m] :
        b \in SumBodies({StagedOdf, GoneDir}), m \in BOOLEAN}

\* key files a user may have put in the data directory: named with the odfid,
\* or with 'key'
IdKeyName == <<"0123", "txt">>
KeyName == <<"key", "txt">>
MyKeyName == <<"my", "key">>
KeyFiles ==
    [idkey |-> {IdKeyName}, key |-> {KeyName}, keys |-> {KeyName, MyKeyName},
     idkeys |-> {IdKeyName, <<"0123", "key">>}]

\* every combination of the mode-selecting parameters, the rest at its default
ModeSweep ==
    {[a |-> [DefaultArgs EXCEPT !.odfid = o, !.sasfiles = s, !.sas_ccf = c,
                                !.sas_odf = d, !.data_dir = dd],
      base |-> b, st |-> OkStage, gone |-> {}] :
        o \in {None, Some(<<>>), Some(ObsId)}, s \in BOOLEAN,
        c \in {None, Some(AbsCcf), Some(RelCcf)},
        d \in {None, Some(AbsSum), Some(RelSum)},
        dd \in {None, Some(<<Nm("data")>>)},
        b \in {"missing", "empty", "obs"}}

\* id-driven calls
IdRuns ==
    {[a |-> [DefaultArgs EXCEPT !.odfid = Some(ObsId), !.data_dir = dd,
                                !.level = l, !.encryption_key = k,
                                !.overwrite = w, !.repo = r],
      base |-> b, st |-> NoStage, gone |-> {}] :
        dd \in DataDirs, l \in Levels, k \in {None, Some(KeyString)},
        w \in BOOLEAN, r \in Repos, b \in {"missing", "empty", "obs"}}

\* calls on pre-staged files
StagedRuns ==
    {[a |-> [DefaultArgs EXCEPT !.odfid = o, !.sasfiles = TRUE,
                                !.sas_ccf = Some(AbsCcf), !.sas_odf = Some(AbsSum),
                                !.data_dir = dd, !.level = l],
      base |-> b, st |-> st, gone |-> {}] :
        o \in {None, Some(<<>>)}, dd \in {None, Some(<<Nm("data")>>)},
        l \in {"ODF", "RAW"}, b \in {"missing", "empty"}, st \in Stages}

\* calls on pre-staged files of which one or both are not on the disk
AbsentRuns ==
    {[a |-> [DefaultArgs EXCEPT !.odfid = Some(<<>>), !.sasfiles = TRUE,
                                !.sas_ccf = Some(AbsCcf), !.sas_odf = Some(AbsSum),
                                !.data_dir = Some(<<Nm("data")>>)],
      base |-> "empty", st |-> OkStage, gone |-> g] :
        g \in {{AbsCcf}, {AbsSum}, {AbsCcf, AbsSum}}}

\* id-driven calls without encryption_key and with key files in the data directory
KeyRuns ==
    {[a |-> [DefaultArgs EXCEPT !.odfid = Some(ObsId), !.data_dir = Some(<<Nm("data")>>),
                                !.repo = r],
      base |-> b, st |-> NoStage, gone |-> {}] :
        r \in {"esa", "heasarc", "sciserver"}, b \in DOMAIN KeyFiles}

\* id-driven calls into a data directory that holds another observation
OtherRuns ==
    {[a |-> [DefaultArgs EXCEPT !.odfid = Some(ObsId), !.data_dir = Some(<<Nm("data")>>),
                                !.level = l, !.repo = r],
      base |-> "other", st |-> NoStage, gone |-> {}] :
        l \in LevelOpts, r \in Repos}

Scenarios ==
    ModeSweep \cup IdRuns \cup StagedRuns \cup AbsentRuns \cup KeyRuns \cup OtherRuns

\* the prerequisite variables: all set, or one of them unset or empty
GoodEnv ==
    [v \in EnvVars |->
        IF v \in {"SAS_ODF", "SAS_CCF"} THEN None ELSE Some(<<E, Nm("opt"), Nm(v)>>)]
Envs ==
    {GoodEnv} \cup
    {[GoodEnv EXCEPT ![v] = x] :
        v \in {"LHEASOFT", "SAS_DIR", "SAS_CCFPATH"}, x \in {None, Some(<<>>)}}

\* the files of another observation kept in the same data directory
OtherId == <<"0999">>
OtherObs ==
    {<<OtherId, Nm("ODF"), <<"g", "FIT", "gz">>>>,
     <<OtherId, Nm("PPS"), <<"P0999", "FTZ">>>>,
     <<OtherId, Nm("PPS"), <<"index", "html">>>>}

\* the disk before the call
Disk0 == [p \in {<<E>>, startdir} |-> Dir("prior")]
WithBase(f, b, variant) ==
    LET o == Join(b, ObsId)
        g == IF variant = "missing" THEN f ELSE Put(f, b, Dir("prior"))
    IN  IF variant = "obs"
        THEN PutTree(g, {o \o <<Nm("ODF"), ManifestName>>,
                         o \o <<Nm("ODF"), <<"old", "FIT">>>>,
                         o \o <<Nm("working"), CcfName>>}, "prior")
        ELSE IF variant = "other"
        THEN PutTree(g, {b \o p : p \in OtherObs}, "prior")
        ELSE IF variant \in DOMAIN KeyFiles
        THEN [q \in DOMAIN g \cup {b \o <<n>> : n \in KeyFiles[variant]} |->
                 IF q \in DOMAIN g THEN g[q] ELSE File("prior", <<<<KeyString>>>>)]
        ELSE g
WithStage(f, st) ==
    IF ~st.files THEN f
    ELSE LET g == PutTree(f, {AbsCcf, AbsSum} \cup
                             (IF st.manifest THEN {StagedOdf \o <<ManifestName>>} ELSE {}),
                          "prior")
             h == Put(g, StagedOdf, Dir("prior"))
         IN  [h EXCEPT ![AbsSum] = File("prior", st.body)]
Disk(s) ==
    LET f == WithStage(WithBase(Disk0, ResolveDataDir(s.a.data_dir, startdir), s.base), s.st)
    IN  Restrict(f, DOMAIN f \ s.gone)

Init ==
    \E s \in Scenarios, ev \in Envs :
        /\ args = s.a
        /\ environ = ev
        /\ fs = Disk(s)
        /\ fs0 = Disk(s)
        /\ cwd = startdir
        /\ data_dir = None
        /\ level = [list |-> FALSE, s |-> "", l |-> <<>>]
        /\ encryption_key = None
        /\ encrypted = {}
        /\ todo = <<>>
        /\ pc = "start"
        /\ outcome = "running"
        /\ log = <<>>

\* ------------------------------------------------------------------ setodf
Fail(e) == pc' = "done" /\ outcome' = e
Goto(l) == pc' = l /\ outcome' = outcome
Succeed == pc' = "done" /\ outcome' = "ok"
Logged(evs) == log' = log \o evs
StrLevel(x) == [list |-> FALSE, s |-> x, l |-> <<>>]
ListLevel(xs) == [list |-> TRUE, s |-> "", l |-> xs]
\* level == 'X' for the local name level, which holds a string or a list
LevelIs(x) == ~level.list /\ level.s = x

\* the same without the test of line 147-150
BadModeNeitherOnly(a) == ~Truthy(a.odfid) /\ ~a.sasfiles
\* lines 143-155: the mode checks
BadMode(a) ==
    \/ ~Truthy(a.odfid) /\ ~a.sasfiles
    \/ Truthy(a.odfid) /\ (Truthy(a.sas_ccf) \/ Truthy(a.sas_odf))
MissingSasFiles(a) == a.sasfiles /\ ~Truthy(a.sas_ccf) /\ ~Truthy(a.sas_odf)

\* lines 131-155
CheckInputs ==
    /\ pc = "start"
    /\ data_dir' = args.data_dir
    /\ level' = StrLevel(args.level)
    /\ encryption_key' = args.encryption_key
    /\ IF BadMode(args) THEN Fail("ConfigError")
       ELSE IF MissingSasFiles(args) THEN Fail("SasFilesNotSet")
       ELSE Goto("env")
    /\ UNCHANGED <<args, encrypted, todo, environ, cwd, fs, log, fs0>>

\* the same testing 'is None' in place of 'not'
EnvMissingUnsetOnly(ev) == \E v \in {"LHEASOFT", "SAS_DIR", "SAS_CCFPATH"} : ev[v] = None
\* lines 162-181
EnvMissing(ev) == \E v \in {"LHEASOFT", "SAS_DIR", "SAS_CCFPATH"} : ~Truthy(ev[v])
CheckEnv ==
    /\ pc = "env"
    /\ IF EnvMissing(environ) THEN Fail("InitError") ELSE Goto("datadir")
    /\ UNCHANGED <<args, data_dir, level, encryption_key, encrypted, todo, environ,
                   cwd, fs, log, fs0>>

\* lines 184-205: resolve, create and enter the data directory
SetDataDir ==
    /\ pc = "datadir"
    /\ LET d == ResolveDataDir(data_dir, cwd)
       IN  /\ data_dir' = Some(d)
           /\ IF IsDir(fs, d)
              THEN fs' = fs /\ Logged(<<Ev("chdir", d)>>)
              ELSE fs' = Put(fs, d, Dir("run"))
                   /\ Logged(<<Ev("mkdir", d), Ev("chdir", d)>>)
           /\ cwd' = d
    /\ Goto("level")
    /\ UNCHANGED <<args, level, encryption_key, encrypted, todo, environ, fs0>>

\* lines 216-231: the level check, the directory names and the mode branch
CheckLevel ==
    /\ pc = "level"
    /\ IF args.level \notin LevelOpts THEN Fail("LevelError")
       ELSE IF args.odfid = None THEN Fail("TypeError")   \* os.path.join(data_dir, None)
       ELSE IF Truthy(args.odfid) THEN Goto("obsdir")
       ELSE IF args.sasfiles THEN Goto("sasfiles")
       ELSE Succeed
    /\ UNCHANGED <<args, data_dir, level, encryption_key, encrypted, todo, environ,
                   cwd, fs, log, fs0>>

\* the same with the overwrite test left out
ObsDirDecisionAlwaysRemove(f, d, overwrite) ==
    IF ~Exists(f, d) THEN "create" ELSE "remove"
\* lines 234-243: what becomes of an existing observation directory
ObsDirDecision(f, d, overwrite) ==
    IF ~Exists(f, d) THEN "create"
    ELSE IF overwrite THEN "remove"
    ELSE "conflict"

\* lines 231-256: remove (on overwrite) and create the observation directory
PrepareObsDir ==
    /\ pc = "obsdir"
    /\ IF ObsDirDecision(fs, obs_dir, args.overwrite) = "conflict"
       THEN /\ Fail("Conflict")
            /\ UNCHANGED <<fs, log>>
       ELSE LET had == ObsDirDecision(fs, obs_dir, args.overwrite) = "remove"
                f1 == IF had THEN RmTree(fs, obs_dir) ELSE fs
            IN  IF Exists(f1, obs_dir)
                THEN Fail("FileExistsError") /\ fs' = f1 /\ UNCHANGED log
                ELSE /\ fs' = Put(Put(f1, obs_dir, Dir("run")), working_dir, Dir("run"))
                     /\ Logged((IF had THEN <<Ev("rmtree", Norm(obs_dir))>> ELSE <<>>)
                               \o <<Ev("mkdir", Norm(obs_dir)), Ev("mkdir", working_dir)>>)
                     /\ Goto(IF args.repo \in {"esa", "heasarc", "sciserver"}
                             THEN args.repo ELSE "decrypt")
    /\ UNCHANGED <<args, data_dir, level, encryption_key, encrypted, todo, environ,
                   cwd, fs0>>

\* what an archive, a mirror or a copy may deliver: files relative to the level
\* directory
GpgName == <<"e", "FIT", "gpg">>
GzName == <<"f", "FIT", "gz">>
\* the decrypted twin of GpgName, and a second encrypted file
PlainName == <<"e", "FIT">>
Gpg2Name == <<"h", "FIT", "gpg">>
TarName == <<"0123", "TAR">>
PpsName == <<"P0123", "FTZ">>
Payloads ==
    {{}, {<<ManifestName>>}, {<<ManifestName>>, <<TarName>>}, {<<TarName>>},
     {<<ManifestName>>, <<GpgName>>, <<GzName>>}, {<<PpsName>>},
     {<<ManifestName>>, <<GpgName>>, <<PlainName>>, <<Gpg2Name>>}}
\* what a secondary archive (*.TAR) may hold
TarContents == {{<<<<"a", "FIT">>>>}, {<<ManifestName>>, <<<<"a", "FIT">>>>}}
Place(d, files) == {d \o p : p \in files}

\* lines 257-267: esa: enter the observation directory, rebind level to a list
EsaLevels(l) == IF l = "ALL" THEN <<"ODF", "PPS">> ELSE <<l>>
EsaEnter ==
    /\ pc = "esa"
    /\ cwd' = Norm(obs_dir)
    /\ fs' = IF Exists(fs, Join(obs_dir, odftar)) THEN Remove(fs, Join(obs_dir, odftar)) ELSE fs
    /\ level' = ListLevel(EsaLevels(level.s))
    /\ todo' = EsaLevels(level.s)
    /\ Logged(<<Ev("chdir", Norm(obs_dir))>>)
    /\ Goto("esa_dl")
    /\ UNCHANGED <<args, data_dir, encryption_key, encrypted, environ, fs0>>

\* lines 268-281: the archive client leaves <odfid>.tar.gz in the working
\* directory, or nothing; the check of lines 275-281 cannot fail
EsaDownload ==
    /\ pc = "esa_dl"
    /\ \E got \in BOOLEAN :
        /\ fs' = IF got THEN Put(fs, Join(cwd, odftar), File("run", <<>>)) ELSE fs
        /\ Logged(<<EvRc("download", <<Nm(Head(todo))>>, IF got THEN 0 ELSE 1)>>)
    /\ Goto("esa_unpack")
    /\ UNCHANGED <<args, data_dir, level, encryption_key, encrypted, todo, environ,
                   cwd, fs0>>

\* lines 283-303: create the level directory, extract and remove the archive
EsaUnpack ==
    /\ pc = "esa_unpack"
    /\ LET d == IF Head(todo) = "ODF" THEN odf_dir ELSE pps_dir
       IN  IF Exists(fs, d)
           THEN Fail("FileExistsError") /\ UNCHANGED <<fs, log, todo>>
           ELSE IF ~Exists(fs, Join(cwd, odftar))
           THEN /\ Fail("FileNotFoundError")
                /\ fs' = Put(fs, d, Dir("run"))
                /\ Logged(<<Ev("mkdir", d)>>)
                /\ UNCHANGED todo
           ELSE \E pl \in Payloads :
                /\ fs' = Remove(PutTree(Put(fs, d, Dir("run")), Place(d, pl), "run"),
                                Join(cwd, odftar))
                /\ Logged(<<Ev("mkdir", d), Ev("extract", d),
                            Ev("remove", Join(cwd, odftar))>>)
                /\ todo' = Tail(todo)
                /\ Goto(IF Tail(todo) = <<>> THEN "decrypt" ELSE "esa_dl")
    /\ UNCHANGED <<args, data_dir, level, encryption_key, encrypted, environ, cwd, fs0>>

\* names the pruning of lines 316-324 looks for ('index.html' in file, '4XMM' in direc)
IndexName == <<"index", "html">>
CatName == <<"4XMM", "cat">>
IsIndexHtml(name) == \E i \in 1..(Len(name) - 1) : name[i] = "index" /\ name[i + 1] = "html"
Is4XMM(name) == \E i \in 1..Len(name) : name[i] = "4XMM"

\* what the mirroring tool leaves below the working directory for a level:
\* nothing, or the level's files with the index files it generates
Mirrored(lv, pl) ==
    IF lv = "ODF" THEN Place(odf_dir, pl) \cup {odf_dir \o <<IndexName>>}
    ELSE IF lv = "PPS" THEN Place(pps_dir, pl) \cup {pps_dir \o <<IndexName>>}
    ELSE Place(odf_dir, pl) \cup {pps_dir \o <<PpsName>>, Norm(obs_dir) \o <<IndexName>>,
                                   Norm(obs_dir) \o <<CatName, <<"cat", "FIT">>>>}

\* lines 305-313: heasarc: wget mirrors into the working directory; its exit
\* status is not looked at
HeasarcDownload ==
    /\ pc = "heasarc"
    /\ \/ fs' = fs /\ Logged(<<EvRc("download", <<Nm("wget")>>, 1)>>)
       \/ \E pl \in Payloads :
            /\ fs' = PutTree(fs, Mirrored(level.s, pl), "run")
            /\ Logged(<<EvRc("download", <<Nm("wget")>>, 0)>>)
    /\ Goto("prune")
    /\ UNCHANGED <<args, data_dir, level, encryption_key, encrypted, todo, environ,
                   cwd, fs0>>

\* lines 314-324: what os.walk('.') removes below directory d
PruneRoots(f, d, lv) ==
    {p \in Under(f, d) \ {Norm(d)} :
        \/ f[p].kind = "file" /\ IsIndexHtml(Last(p))
        \/ f[p].kind = "dir" /\ Is4XMM(Last(p))
        \/ f[p].kind = "dir" /\ lv = "ODF" /\ Last(p) = Nm("PPS")
        \/ f[p].kind = "dir" /\ lv = "PPS" /\ Last(p) = Nm("ODF")}
Pruned(f, d, lv) == UNION {Under(f, p) : p \in PruneRoots(f, d, lv)}

RECURSIVE SetToSeq(_)
SetToSeq(S) == IF S = {} THEN <<>> ELSE LET x == CHOOSE x \in S : TRUE
                                        IN  <<x>> \o SetToSeq(S \ {x})
RemovedEvents(S) == LET q == SetToSeq(S) IN [i \in 1..Len(q) |-> Ev("remove", q[i])]

HeasarcPrune ==
    /\ pc = "prune"
    /\ LET gone == Pruned(fs, cwd, level.s)
       IN  /\ fs' = Restrict(fs, DOMAIN fs \ gone)
           /\ Logged(RemovedEvents(gone))
    /\ Goto("decrypt")
    /\ UNCHANGED <<args, data_dir, level, encryption_key, encrypted, todo, environ,
                   cwd, fs0>>

\* lines 325-340: sciserver: copy the level from the shared file system
Copied(lv, pl) ==
    IF lv = "ODF" THEN Place(odf_dir, pl)
    ELSE IF lv = "PPS" THEN Place(pps_dir, pl)
    ELSE Place(odf_dir, pl) \cup {pps_dir \o <<PpsName>>}
SciserverCopy ==
    /\ pc = "sciserver"
    /\ LET lv == level.s
           d == IF lv = "ODF" THEN odf_dir ELSE pps_dir
           f1 == IF lv = "ALL" THEN fs ELSE Put(fs, d, Dir("run"))
           made == IF lv = "ALL" THEN <<>> ELSE <<Ev("mkdir", d)>>
       IN  IF lv # "ALL" /\ Exists(fs, d)
           THEN Fail("FileExistsError") /\ UNCHANGED <<fs, log>>
           ELSE \/ /\ Fail("FileNotFoundError")      \* the archive path is absent
                   /\ fs' = f1
                   /\ Logged(made \o <<EvRc("download", <<Nm("copytree")>>, 1)>>)
                \/ \E pl \in Payloads :
                   /\ fs' = PutTree(f1, Copied(lv, pl), "run")
                   /\ Logged(made \o <<EvRc("download", <<Nm("copytree")>>, 0)>>)
                   /\ Goto("decrypt")
    /\ UNCHANGED <<args, data_dir, level, encryption_key, encrypted, todo, environ,
                   cwd, fs0>>

\* glob.glob('**/*.<ext>', recursive=True) from directory d
Glob(f, d, ext) == {p \in Under(f, d) \ {Norm(d)} : HasExt(Last(p), ext)}
\* glob.glob(os.path.join(d, '*<word>*')): the entries of d whose name holds word
HasWord(name, w) == \E i \in 1..Len(name) : name[i] = w
GlobWord(f, d, w) ==
    {p \in DOMAIN f : Len(p) = Len(Norm(d)) + 1 /\ IsPrefix(Norm(d), p) /\ HasWord(Last(p), w)}

\* lines 349-358: the key-file candidates when no key was given
KeyCandidates(f, d, id) ==
    IF GlobWord(f, d, Last(id)[1]) # {} THEN GlobWord(f, d, Last(id)[1])
    ELSE GlobWord(f, d, "key")

\* lines 343-378: find the encrypted files and settle the key
FindEncrypted ==
    /\ pc = "decrypt"
    /\ encrypted' = Glob(fs, cwd, "gpg")
    /\ IF Glob(fs, cwd, "gpg") = {} THEN Goto("gunzip") /\ UNCHANGED encryption_key
       ELSE IF encryption_key = None
       THEN LET c == KeyCandidates(fs, data_dir[1], args.odfid[1])
            IN  /\ UNCHANGED encryption_key
                /\ IF Cardinality(c) > 1 THEN Fail("AmbiguousKey")
                   ELSE IF c = {}
                   THEN (IF IsFile(fs, Join(cwd, <<Nm("N")>>))
                         THEN Fail("FileNotFoundError") ELSE Fail("NoKeyFound"))
                   ELSE IF \E k \in c : IsFile(fs, k)
                   THEN Fail("TypeError")               \* open() of the glob list
                   ELSE Fail("NoKeyFound")
       ELSE IF IsFile(fs, Join(cwd, encryption_key[1]))
       THEN LET b == fs[Norm(Join(cwd, encryption_key[1]))].body
            IN  IF b = <<>> THEN Fail("IndexError") /\ UNCHANGED encryption_key
                ELSE encryption_key' = Some(b[1][1]) /\ Goto("decrypt_loop")
       ELSE Goto("decrypt_loop") /\ UNCHANGED encryption_key
    /\ UNCHANGED <<args, data_dir, level, todo, environ, cwd, fs, log, fs0>>

\* the same without the test for an output file that is already there
NeedsDecryptAlways(f, file) == TRUE
\* lines 382-383: a file is decrypted unless its output file exists
NeedsDecrypt(f, file) == ~Exists(f, StripExt(file))

\* lines 381-395: one encrypted file
DecryptFile ==
    /\ pc = "decrypt_loop"
    /\ \E file \in encrypted :
        LET out_file == StripExt(file)
            last == encrypted = {file}
        IN  IF ~NeedsDecrypt(fs, file)
            THEN /\ UNCHANGED <<fs, log>>
                 /\ encrypted' = encrypted \ {file}
                 /\ Goto(IF last THEN "gunzip" ELSE "decrypt_loop")
            ELSE \E rc \in {0, 2} :
                 /\ Logged(<<EvRc("run", <<Nm("gpg")>> \o file, rc)>>
                           \o (IF rc = 0 THEN <<Ev("remove", file)>> ELSE <<>>))
                 /\ IF rc # 0
                    THEN Fail("DecryptError") /\ UNCHANGED <<fs, encrypted>>
                    ELSE /\ fs' = Remove(Put(fs, out_file, File("run", <<>>)), file)
                         /\ encrypted' = encrypted \ {file}
                         /\ Goto(IF last THEN "gunzip" ELSE "decrypt_loop")
    /\ UNCHANGED <<args, data_dir, level, encryption_key, todo, environ, cwd, fs0>>

\* lines 399-407: decompress every *.gz below the working directory
Gunzip ==
    /\ pc = "gunzip"
    /\ LET gz == Glob(fs, cwd, "gz")
           out == {StripExt(p) : p \in gz}
       IN  /\ fs' = Restrict(PutTree(fs, out, "run"), (DOMAIN fs \cup out) \ gz)
           /\ Logged(RemovedEvents(gz))
    /\ Goto("untar")
    /\ UNCHANGED <<args, data_dir, level, encryption_key, encrypted, todo, environ,
                   cwd, fs0>>

\* lines 409-415: extract every *.TAR below the working directory into odf_dir
Untar ==
    /\ pc = "untar"
    /\ LET tars == Glob(fs, cwd, "TAR")
       IN  IF tars = {} THEN UNCHANGED <<fs, log>>
           ELSE \E c \in TarContents :
                /\ fs' = Restrict(PutTree(fs, Place(odf_dir, c), "run"),
                                  (DOMAIN fs \cup Place(odf_dir, c)
                                   \cup UNION {Ancestors(p) : p \in Place(odf_dir, c)}) \ tars)
                /\ Logged(<<Ev("extract", odf_dir)>> \o RemovedEvents(tars))
    /\ Goto("calibrate")
    /\ UNCHANGED <<args, data_dir, level, encryption_key, encrypted, todo, environ,
                   cwd, fs0>>

\* lines 417-426: products only, or on to calibration
CalibrationBranch ==
    /\ pc = "calibrate"
    /\ IF LevelIs("PPS") THEN Succeed ELSE Goto("manifest")
    /\ UNCHANGED <<args, data_dir, level, encryption_key, encrypted, todo, environ,
                   cwd, fs, log, fs0>>

\* glob.glob('<pattern>') in directory d: its entries whose name matches
Entries(f, d) == {p \in DOMAIN f : Len(p) = Len(Norm(d)) + 1 /\ IsPrefix(Norm(d), p)}
GlobManifest(f, d) == {p \in Entries(f, d) : IsManifest(Last(p))}
GlobCcfCifAny(f, d) == {p \in DOMAIN f : Norm(d) = p}
GlobCcfCif(f, d) == {p \in Entries(f, d) : IsCcfCif(Last(p))}
GlobSumSas(f, d) == {p \in Entries(f, d) : IsSumSas(Last(p))}

SetEnv(ev, v, x) == [ev EXCEPT ![v] = Some(x)]

\* lines 425-442: enter odf_dir, require a MANIFEST, export SAS_ODF = odf_dir
CheckManifest ==
    /\ pc = "manifest"
    /\ IF ~IsDir(fs, odf_dir)
       THEN Fail("FileNotFoundError") /\ UNCHANGED <<cwd, environ, log>>
       ELSE /\ cwd' = odf_dir
            /\ IF GlobManifest(fs, odf_dir) = {}
               THEN /\ Fail("IndexError")
                    /\ Logged(<<Ev("chdir", odf_dir)>>)
                    /\ UNCHANGED environ
               ELSE /\ environ' = SetEnv(environ, "SAS_ODF", odf_dir)
                    /\ Logged(<<Ev("chdir", odf_dir), Ev("setenv", <<Nm("SAS_ODF")>>)>>)
                    /\ Goto("cifbuild")
    /\ UNCHANGED <<args, data_dir, level, encryption_key, encrypted, todo, fs, fs0>>

\* lines 444-461: run cifbuild in working_dir
RunCifbuild ==
    /\ pc = "cifbuild"
    /\ cwd' = working_dir
    /\ \E rc \in {0, 1}, made \in BOOLEAN :
        /\ fs' = IF made THEN Put(fs, working_dir \o <<CcfName>>, File("run", <<>>)) ELSE fs
        /\ IF rc # 0 THEN Fail("CifbuildFailed") ELSE Goto("ccf")
        /\ Logged(<<Ev("chdir", working_dir), EvRc("run", <<Nm("cifbuild")>>, rc)>>)

    /\ UNCHANGED <<args, data_dir, level, encryption_key, encrypted, todo, environ, fs0>>

\* lines 463-477: require ccf.cif, export SAS_CCF
SetSasCcf ==
    /\ pc = "ccf"
    /\ IF GlobCcfCif(fs, cwd) = {}
       THEN Fail("IndexError") /\ UNCHANGED <<environ, log>>
       ELSE /\ environ' = SetEnv(environ, "SAS_CCF", Join(working_dir, <<CcfName>>))
            /\ Logged(<<Ev("setenv", <<Nm("SAS_CCF")>>)>>)
            /\ Goto("odfingest")
    /\ UNCHANGED <<args, data_dir, level, encryption_key, encrypted, todo, cwd, fs, fs0>>

\* lines 479-496: run odfingest; it may leave a summary file
RunOdfingest ==
    /\ pc = "odfingest"
    /\ \E rc \in {0, 1} :
        /\ \/ fs' = fs
           \/ \E b \in SumBodies({odf_dir, Join(odf_dir, <<>>)}) :
                fs' = Put(fs, Join(cwd, <<SumName>>), File("run", b))
        /\ IF rc # 0 THEN Fail("OdfingestFailed") ELSE Goto("sumsas")
        /\ Logged(<<EvRc("run", <<Nm("odfingest")>>, rc)>>)
    /\ UNCHANGED <<args, data_dir, level, encryption_key, encrypted, todo, environ,
                   cwd, fs0>>

\* lines 498-512: require *SUM.SAS, export SAS_ODF
SetSasOdf ==
    /\ pc = "sumsas"
    /\ IF GlobSumSas(fs, cwd) = {}
       THEN Fail("IndexError") /\ UNCHANGED <<environ, log>>
       ELSE \E f \in GlobSumSas(fs, cwd) :
            /\ environ' = SetEnv(environ, "SAS_ODF", Join(working_dir, <<Last(f)>>))
            /\ Logged(<<Ev("setenv", <<Nm("SAS_ODF")>>)>>)
            /\ Goto("sumpath")
    /\ UNCHANGED <<args, data_dir, level, encryption_key, encrypted, todo, cwd, fs, fs0>>

\* 'PATH' in line
HasPath(line) == \E i \in 1..Len(line) : line[i] = PATHKEY
\* the same with a mismatch reported and not raised
LineVerdictLenient(line, odf) ==
    IF ~HasPath(line) THEN "ok"
    ELSE IF Len(line) # 2 THEN "ValueError"
    ELSE "ok"
\* lines 517-525: the verdict on one line of the summary file
LineVerdict(line, odf) ==
    IF ~HasPath(line) THEN "ok"
    ELSE IF Len(line) # 2 THEN "ValueError"       \* key, path = line.split()
    ELSE IF line[2] # odf THEN "PathMismatch"
    ELSE "ok"
\* the loop stops at the first line that raises
RECURSIVE LinesVerdict(_, _)
LinesVerdict(lines, odf) ==
    IF lines = <<>> THEN "ok"
    ELSE IF LineVerdict(Head(lines), odf) # "ok" THEN LineVerdict(Head(lines), odf)
    ELSE LinesVerdict(Tail(lines), odf)

\* lines 514-530: the PATH keyword of the summary file against odf_dir
CheckSumPath ==
    /\ pc = "sumpath"
    /\ LET v == LinesVerdict(fs[environ["SAS_ODF"][1]].body, odf_dir)
       IN  IF v = "ok" THEN Succeed ELSE Fail(v)
    /\ UNCHANGED <<args, data_dir, level, encryption_key, encrypted, todo, environ,
                   cwd, fs, log, fs0>>

\* lines 532-557: pre-staged files: both paths must start with '/'
SasfilesValidate ==
    /\ pc = "sasfiles"
    /\ IF args.sas_ccf = None THEN Fail("TypeError")        \* None[0]
       ELSE IF ~IsAbs(args.sas_ccf[1]) THEN Fail("NotAbsolute")
       ELSE IF args.sas_odf = None THEN Fail("TypeError")
       ELSE IF ~IsAbs(args.sas_odf[1]) THEN Fail("NotAbsolute")
       ELSE Goto("sas_ccf")
    /\ UNCHANGED <<args, data_dir, level, encryption_key, encrypted, todo, environ,
                   cwd, fs, log, fs0>>

\* line 559
SasfilesSetCcf ==
    /\ pc = "sas_ccf"
    /\ environ' = SetEnv(environ, "SAS_CCF", args.sas_ccf[1])
    /\ Logged(<<Ev("setenv", <<Nm("SAS_CCF")>>)>>)
    /\ Goto("sas_sum")
    /\ UNCHANGED <<args, data_dir, level, encryption_key, encrypted, todo, cwd, fs, fs0>>

\* 'SUM.SAS' in sas_odf
NamesSumSas(p) ==
    \E i \in 1..Len(p) : \E j \in 1..(Len(p[i]) - 1) : p[i][j] = "SUM" /\ p[i][j + 1] = "SAS"
\* lines 570-579: the verdict on one line of the supplied summary file
StagedLineVerdict(f, d, line) ==
    IF ~HasPath(line) THEN "ok"
    ELSE IF Len(line) # 2 THEN "ValueError"
    ELSE IF ~Exists(f, Join(d, line[2])) THEN "PathMissing"
    ELSE IF GlobManifest(f, Join(d, line[2])) = {} THEN "IndexError"   \* MANIFEST[0]
    ELSE "ok"
RECURSIVE StagedLinesVerdict(_, _, _)
StagedLinesVerdict(f, d, lines) ==
    IF lines = <<>> THEN "ok"
    ELSE IF StagedLineVerdict(f, d, Head(lines)) # "ok"
    THEN StagedLineVerdict(f, d, Head(lines))
    ELSE StagedLinesVerdict(f, d, Tail(lines))

\* lines 563-579: the supplied summary file and the directory its PATH names
SasfilesCheckSum ==
    /\ pc = "sas_sum"
    /\ IF ~NamesSumSas(args.sas_odf[1]) THEN Fail("NotSumFile")
       ELSE IF ~IsFile(fs, args.sas_odf[1]) THEN Fail("FileNotFoundError")
       ELSE LET v == StagedLinesVerdict(fs, cwd, fs[Norm(args.sas_odf[1])].body)
            IN  IF v = "ok" THEN Goto("sas_odf") ELSE Fail(v)
    /\ UNCHANGED <<args, data_dir, level, encryption_key, encrypted, todo, environ,
                   cwd, fs, log, fs0>>

\* lines 581-583
SasfilesSetOdf ==
    /\ pc = "sas_odf"
    /\ environ' = SetEnv(environ, "SAS_ODF", args.sas_odf[1])
    /\ Logged(<<Ev("setenv", <<Nm("SAS_ODF")>>)>>)
    /\ Succeed
    /\ UNCHANGED <<args, data_dir, level, encryption_key, encrypted, todo, cwd, fs, fs0>>

Next ==
    \/ CheckInputs
    \/ CheckEnv
    \/ SetDataDir
    \/ CheckLevel
    \/ PrepareObsDir
    \/ EsaEnter
    \/ EsaDownload
    \/ EsaUnpack
    \/ HeasarcDownload
    \/ HeasarcPrune
    \/ SciserverCopy
    \/ FindEncrypted
    \/ DecryptFile
    \/ Gunzip
    \/ Untar
    \/ CalibrationBranch
    \/ CheckManifest
    \/ RunCifbuild
    \/ SetSasCcf
    \/ RunOdfingest
    \/ SetSasOdf
    \/ CheckSumPath
    \/ SasfilesValidate
    \/ SasfilesSetCcf
    \/ SasfilesCheckSum
    \/ SasfilesSetOdf

Spec == Init /\ [][Next]_vars

\* ------------------------------------------------------------------ inisas
\* The value of an environment variable is a string that os.pathsep may
\* divide: it is kept as the non-empty sequence of the pieces between the
\* separators ('a:b' = <<a, b>>, '' = <<<<>>>>), each piece the sequence of
\* its path components ('/sas/bin' = <<"", "sas", "bin">>, '' = <<>>).
Str(piece) == <<piece>>
EmptyStr == <<<<>>>>
\* not environ_var: unset or ''
IniFalsy(o) == o = None \/ o[1] = EmptyStr
\* environ_var.split(os.pathsep): the list of the pieces, each a string
Split(str) == [i \in 1..Len(str) |-> Str(str[i])]
\* os.pathsep.join(list)
RECURSIVE PathsepJoin(_)
PathsepJoin(list) == IF list = <<>> THEN <<>> ELSE Head(list) \o PathsepJoin(Tail(list))
\* value in splitpath
InList(value, list) == \E i \in DOMAIN list : list[i] = value
\* os.path.join(s, name, ...): the components go after the last piece of s
PathJoin(str, names) == Front(str) \o <<Last(str) \o names>>

IniVars ==
    {"LHEASOFT", "SAS_DIR", "SAS_CCFPATH", "SAS_PATH", "PATH", "LIBRARY_PATH",
     "LD_LIBRARY_PATH", "PERL5LIB", "PYTHONPATH", "PERLLIB", "SAS_VERBOSITY",
     "SAS_SUPPRESS_WARNING"}

\* lines 633-644: one value of add_environ_variable
AddOne(ev, variable, value, prepend) ==
    IF IniFalsy(ev[variable]) THEN [ev EXCEPT ![variable] = Some(value)]
    ELSE LET splitpath == Split(ev[variable][1])
             added == IF InList(value, splitpath) THEN splitpath
                      ELSE IF prepend THEN <<value>> \o splitpath
                      ELSE splitpath \o <<value>>
         IN  [ev EXCEPT ![variable] = Some(PathsepJoin(added))]
\* lines 603-644: add_environ_variable for a list of values
RECURSIVE add_environ_variable(_, _, _, _)
add_environ_variable(ev, variable, listvalue, prepend) ==
    IF listvalue = <<>> THEN ev
    ELSE add_environ_variable(AddOne(ev, variable, Head(listvalue), prepend),
                              variable, Tail(listvalue), prepend)

\* lines 660-663
binpath(sd) == <<PathJoin(sd, <<"bin">>), PathJoin(sd, <<"bin", "devel">>)>>
libpath(sd) == <<PathJoin(sd, <<"lib">>), PathJoin(sd, <<"libextra">>), PathJoin(sd, <<"libsys">>)>>
perlpath(sd) == <<PathJoin(sd, <<"lib", "perl5">>)>>
pythonpath(sd) == <<PathJoin(sd, <<"lib", "python">>)>>

\* the calls of inisas and the environments it is called in
SasRoot == Str(<<"", "sas">>)
OldRoot == Str(<<"", "old">>)
CcfRoot == Str(<<"", "ccf">>)
CcfList == <<<<"", "ccf">>, <<"", "ccf2">>>>
UsrBin == Str(<<"", "usr", "bin">>)
PerlDir == Str(<<"", "perl">>)
IniArgs ==
    [sas_dir : {None, Some(SasRoot), Some(EmptyStr)},
     sas_ccfpath : {None, Some(CcfRoot), Some(CcfList)},
     verbosity : {4, 5}, suppress_warning : {1}]
IniEnvs ==
    {[v \in IniVars |->
        CASE v = "LHEASOFT" -> l
          [] v = "SAS_DIR" -> d
          [] v = "SAS_CCFPATH" -> c
          [] v = "PATH" -> p
          [] v = "PERLLIB" -> pl
          [] v = "PERL5LIB" -> p5
          [] v = "SAS_VERBOSITY" -> sv
          [] OTHER -> None] :
        l \in {None, Some(Str(<<"", "opt", "heasoft">>))},
        d \in {None, Some(SasRoot), Some(OldRoot)},
        c \in {None, Some(CcfRoot), Some(Str(<<"", "oldccf">>))},
        p \in {Some(UsrBin), Some(PathJoin(SasRoot, <<"bin">>) \o UsrBin)},
        pl \in {None, Some(PerlDir), Some(PerlDir \o EmptyStr)},
        p5 \in {None, Some(PerlDir)},
        sv \in {None, Some(Str(<<"1">>))}}

IniInit ==
    /\ args \in IniArgs
    /\ environ \in IniEnvs
    /\ pc = "ini_check"
    /\ outcome = "running"
    /\ log = <<>>
    /\ data_dir = None /\ level = StrLevel("") /\ encryption_key = None
    /\ encrypted = {} /\ todo = <<>> /\ cwd = startdir /\ fs = Disk0 /\ fs0 = Disk0

IniRest == <<args, data_dir, level, encryption_key, encrypted, todo, cwd, fs, fs0>>
\* a call returns or raises: the environment it leaves is recorded
Returned(ev, rc) == log' = Append(log, EvRc("return", ev, rc))

\* lines 648-654
IniCheck ==
    /\ pc = "ini_check"
    /\ IF IniFalsy(environ["LHEASOFT"]) THEN Fail("InitError") /\ Returned(environ, 1)
       ELSE IF args.sas_dir = None \/ args.sas_ccfpath = None
       THEN Fail("ConfigError") /\ Returned(environ, 1)
       ELSE Goto("ini_scalars") /\ UNCHANGED log
    /\ UNCHANGED environ
    /\ UNCHANGED IniRest

\* lines 656-657
IniScalars ==
    /\ pc = "ini_scalars"
    /\ environ' = add_environ_variable(
                      add_environ_variable(environ, "SAS_DIR", <<args.sas_dir[1]>>, TRUE),
                      "SAS_CCFPATH", <<args.sas_ccfpath[1]>>, TRUE)
    /\ Goto("ini_saspath")
    /\ UNCHANGED log
    /\ UNCHANGED IniRest

\* lines 658-665
IniSasPath ==
    /\ pc = "ini_saspath"
    /\ LET sd == args.sas_dir[1]
       IN  environ' = add_environ_variable(
                          add_environ_variable(environ, "SAS_PATH", <<sd>>, TRUE),
                          "SAS_PATH",
                          binpath(sd) \o libpath(sd) \o perlpath(sd) \o pythonpath(sd), FALSE)
    /\ Goto("ini_paths")
    /\ UNCHANGED log
    /\ UNCHANGED IniRest

\* lines 666-670
IniSearchPaths ==
    /\ pc = "ini_paths"
    /\ LET sd == args.sas_dir[1]
           e1 == add_environ_variable(environ, "PATH", binpath(sd), TRUE)
           e2 == add_environ_variable(e1, "LIBRARY_PATH", libpath(sd), FALSE)
           e3 == add_environ_variable(e2, "LD_LIBRARY_PATH", libpath(sd), FALSE)
           e4 == add_environ_variable(e3, "PERL5LIB", perlpath(sd), TRUE)
       IN  environ' = add_environ_variable(e4, "PYTHONPATH", pythonpath(sd), TRUE)
    /\ Goto("ini_perllib")
    /\ UNCHANGED log
    /\ UNCHANGED IniRest

\* lines 672-675
IniPerllib ==
    /\ pc = "ini_perllib"
    /\ environ' = IF IniFalsy(environ["PERLLIB"]) THEN environ
                  ELSE add_environ_variable(environ, "PERL5LIB",
                                            Split(environ["PERLLIB"][1]), FALSE)
    /\ Goto("ini_verbosity")
    /\ UNCHANGED log
    /\ UNCHANGED IniRest

\* '{}'.format(n)
Format(n) == Str(<<ToString(n)>>)
\* lines 677-678
IniVerbosity ==
    /\ pc = "ini_verbosity"
    /\ environ' = [environ EXCEPT !["SAS_VERBOSITY"] = Some(Format(args.verbosity)),
                                  !["SAS_SUPPRESS_WARNING"] = Some(Format(args.suppress_warning))]
    /\ Succeed
    /\ Returned(environ', 0)
    /\ UNCHANGED IniRest

\* the caller calls inisas once more with the same arguments
IniCallAgain ==
    /\ pc = "done"
    /\ Len(log) < 2
    /\ pc' = "ini_check"
    /\ outcome' = "running"
    /\ UNCHANGED <<environ, log>>
    /\ UNCHANGED IniRest

IniNext ==
    \/ IniCheck
    \/ IniScalars
    \/ IniSasPath
    \/ IniSearchPaths
    \/ IniPerllib
    \/ IniVerbosity
    \/ IniCallAgain

SpecIni == IniInit /\ [][IniNext]_vars

\* ============================================================== properties
\* what the claims speak of, read off the call and the history
Given(o) == o # None /\ o[1] # <<>>
IdGiven == Given(args.odfid)
\* <base>/<odfid> of the call, for the directory the process started in
Base0 == ResolveDataDir(args.data_dir, startdir)
Obs0 == Base0 \o ObsId
Happened(ops) == \E i \in DOMAIN log : log[i].op \in ops
Ran(prog) == \E i \in DOMAIN log : log[i].op = "run" /\ log[i].arg = <<Nm(prog)>>
EnvWritten == Happened({"setenv"}) \/ environ["SAS_ODF"] # None \/ environ["SAS_CCF"] # None
\* no directory made or removed, no change of directory, no subprocess, no export
Untouched == log = <<>> /\ fs = fs0 /\ cwd = startdir /\ ~EnvWritten
PrereqUnset == \E v \in {"LHEASOFT", "SAS_DIR", "SAS_CCFPATH"} : ~Given(environ[v])
ModeValid ==
    /\ IdGiven \/ args.sasfiles
    /\ IdGiven => ~Given(args.sas_ccf) /\ ~Given(args.sas_odf)
    /\ args.sasfiles => Given(args.sas_ccf) \/ Given(args.sas_odf)

\* C1: a call that selects neither mode (no odfid, sasfiles false) or both (an
\* odfid with sas_ccf or sas_odf) ends in the configuration error, and nothing
\* has been created, removed, entered or exported when it does.
C1_ModeSelection ==
    (\/ ~IdGiven /\ ~args.sasfiles
     \/ IdGiven /\ (Given(args.sas_ccf) \/ Given(args.sas_odf)))
    => /\ pc \in {"start", "done"}
       /\ pc = "done" => outcome = "ConfigError"
       /\ Untouched
C1_Witness ==
    /\ pc = "done" /\ outcome = "ConfigError"
    /\ IdGiven /\ Given(args.sas_odf) /\ args.sasfiles
    /\ ~Exists(fs, Base0)

\* C2: with sasfiles true and no odfid, a call that lacks sas_ccf or sas_odf
\* (one of them, or both) ends in the error 'Parameters sas_ccf and sas_odf
\* must be set if sasfiles = True' without creating a directory or exporting
\* a variable (stated for calls whose prerequisite variables are set).
C2_BothFilesRequired ==
    (~IdGiven /\ args.sasfiles /\ (~Given(args.sas_ccf) \/ ~Given(args.sas_odf))
     /\ ~PrereqUnset)
    => /\ pc = "done" => outcome = "SasFilesNotSet"
       /\ ~Happened({"mkdir", "setenv"})

\* C3: with valid mode parameters and LHEASOFT, SAS_DIR or SAS_CCFPATH unset or
\* empty, the call ends in the initialization error with nothing created,
\* removed, entered, run or exported.
C3_PrerequisiteEnv ==
    (ModeValid /\ PrereqUnset)
    => /\ pc \in {"start", "env", "done"}
       /\ pc = "done" => outcome = "InitError"
       /\ Untouched
C3_Witness ==
    /\ pc = "done" /\ outcome = "InitError"
    /\ IdGiven /\ environ["SAS_DIR"] = Some(<<>>) /\ Given(environ["LHEASOFT"])
    /\ ~Exists(fs, Base0)

ChecksPass == ModeValid /\ ~PrereqUnset /\ args.level \in {"ODF", "PPS", "ALL"}
\* C4: an odfid, overwrite false and an existing <base>/<odfid>: nothing is
\* removed, every file and directory that existed is unchanged, nothing is
\* downloaded, extracted or run, SAS_ODF and SAS_CCF are not written, the run
\* never succeeds, and once the parameter and environment checks have passed
\* it ends in the conflict error.
C4_NoOverwrite ==
    (IdGiven /\ ~args.overwrite /\ Exists(fs0, Obs0))
    => /\ ~Happened({"rmtree", "remove", "download", "extract", "run", "setenv"})
       /\ \A p \in DOMAIN fs0 : p \in DOMAIN fs /\ fs[p] = fs0[p]
       /\ Under(fs, Obs0) = Under(fs0, Obs0)
       /\ ~EnvWritten
       /\ pc = "done" => outcome # "ok"
       /\ (pc = "done" /\ ChecksPass) => outcome = "Conflict"
       /\ ChecksPass => pc \in {"start", "env", "datadir", "level", "obsdir", "done"}
C4_Witness ==
    /\ pc = "done" /\ outcome = "Conflict"
    /\ ~args.overwrite /\ Exists(fs0, Obs0 \o <<Nm("ODF"), ManifestName>>)
    /\ args.repo = "heasarc"

Position(op, arg) == {i \in DOMAIN log : log[i].op = op /\ log[i].arg = arg}
\* C5: <base>/<odfid> is removed only when overwrite is true; when it is, the
\* removal of the whole tree comes before the directory is created again and
\* before anything is downloaded, extracted or run, and nothing that was in it
\* before the call is in it afterwards.
C5_OverwriteRemovesFirst ==
    /\ (Happened({"rmtree"}) \/ \E p \in Under(fs0, Obs0) : p \notin DOMAIN fs)
       => IdGiven /\ args.overwrite
    /\ (IdGiven /\ Exists(fs0, Obs0) /\ Position("mkdir", Obs0) # {})
       => /\ args.overwrite
          /\ Position("rmtree", Obs0) # {}
          /\ \A i \in Position("rmtree", Obs0) : \A j \in DOMAIN log :
                log[j].op \in {"mkdir", "download", "extract", "run"}
                /\ IsPrefix(Obs0, log[j].arg) => i < j
          /\ \A p \in Under(fs, Obs0) : fs[p].origin # "prior"
C5_Witness ==
    /\ pc = "done" /\ outcome = "ok"
    /\ args.overwrite /\ Exists(fs0, Obs0 \o <<Nm("ODF"), <<"old", "FIT">>>>)
    /\ Exists(fs, Obs0 \o <<Nm("ODF"), ManifestName>>)
    /\ Position("rmtree", Obs0) # {}

\* the calibration steps of the history, in order
IsCalibStep(e) ==
    \/ e.op = "setenv"
    \/ e.op = "run" /\ e.arg \in {<<Nm("cifbuild")>>, <<Nm("odfingest")>>}
CalibSteps == SelectSeq(log, IsCalibStep)
StepKey(e) == <<e.op, e.arg>>
CalibOrder ==
    <<<<"setenv", <<Nm("SAS_ODF")>>>>, <<"run", <<Nm("cifbuild")>>>>,
      <<"setenv", <<Nm("SAS_CCF")>>>>, <<"run", <<Nm("odfingest")>>>>,
      <<"setenv", <<Nm("SAS_ODF")>>>>>>
Odf0 == Obs0 \o <<Nm("ODF")>>
Working0 == Obs0 \o <<Nm("working")>>
NoData == \E i \in DOMAIN log : log[i].op = "download" /\ log[i].rc # 0

\* C6: when the acquisition step of any source yields no data, cifbuild and
\* odfingest are never run, SAS_ODF and SAS_CCF are never written, and the run
\* ends in an error.
C6_NoDataIsFatal ==
    (IdGiven /\ NoData)
    => /\ ~Ran("cifbuild") /\ ~Ran("odfingest")
       /\ ~EnvWritten
       /\ pc = "done" => outcome # "ok"

\* C7: in an id-driven run the calibration steps happen in the order
\* SAS_ODF := odf_dir, cifbuild, SAS_CCF := working/ccf.cif, odfingest,
\* SAS_ODF := working/*SUM.SAS, and each is gated: SAS_ODF is first set only
\* with a MANIFEST in odf_dir, SAS_CCF only after cifbuild exited zero and
\* with ccf.cif present, the final SAS_ODF only after odfingest exited zero
\* and with a summary file present; a non-zero exit ends the run in an error
\* with no later step, and a run that succeeds did all five steps or none.
C7_CalibrationOrder ==
    IdGiven =>
    LET c == CalibSteps
        n == Len(CalibSteps)
    IN  /\ n <= 5 /\ \A i \in 1..n : StepKey(c[i]) = CalibOrder[i]
        /\ n >= 1 => GlobManifest(fs, Odf0) # {}
        /\ n \in {1, 2} => environ["SAS_ODF"] = Some(Odf0)
        /\ n <= 2 => environ["SAS_CCF"] = None
        /\ n >= 3 => /\ c[2].rc = 0
                     /\ IsFile(fs, Working0 \o <<CcfName>>)
                     /\ environ["SAS_CCF"] = Some(Working0 \o <<CcfName>>)
        /\ n \in {3, 4} => environ["SAS_ODF"] = Some(Odf0)
        /\ n = 5 => /\ c[4].rc = 0
                    /\ \E f \in GlobSumSas(fs, Working0) : environ["SAS_ODF"] = Some(f)
        /\ \A i \in 1..n : c[i].rc # 0 =>
              i = n /\ pc = "done" /\ outcome \in {"CifbuildFailed", "OdfingestFailed"}
        /\ (pc = "done" /\ outcome = "ok") => n \in {0, 5}
C7_Witness ==
    /\ pc = "done" /\ outcome = "ok" /\ IdGiven
    /\ Len(CalibSteps) = 5
    /\ args.repo = "sciserver"

\* C8: for every source cifbuild and odfingest are run if and only if the
\* level is 'ODF' or 'ALL'; with level 'PPS' neither is run and SAS_ODF and
\* SAS_CCF are left as they were.
C8_CalibrationIffRaw ==
    IdGiven =>
    /\ (Ran("cifbuild") \/ Ran("odfingest")) => args.level \in {"ODF", "ALL"}
    /\ args.level = "PPS" => ~EnvWritten
    /\ (pc = "done" /\ outcome = "ok" /\ args.level \in {"ODF", "ALL"})
          => Ran("cifbuild") /\ Ran("odfingest")

SumFile0 == Working0 \o <<SumName>>
PathLinesMatch(body, d) == \A i \in DOMAIN body : HasPath(body[i]) => body[i] = PathLine(d)
\* C9: an id-driven run in which odfingest succeeded ends successfully only
\* if every PATH line of the summary file names odf_dir; a PATH line that
\* differs makes the run end in an error.
C9_PathMismatchFails ==
    (IdGiven /\ pc = "done" /\ Len(CalibSteps) = 5)
    => /\ IsFile(fs, SumFile0)
       /\ outcome = "ok" <=> PathLinesMatch(fs[SumFile0].body, Odf0)
       /\ outcome \in {"ok", "PathMismatch", "ValueError"}
C9_Witness ==
    /\ IdGiven /\ pc = "done" /\ outcome = "PathMismatch"
    /\ Len(CalibSteps) = 5
    /\ fs[SumFile0].body = <<PathLine(Odf0), PathLine(Odf0 \o <<E>>)>>

StagedMode == ~IdGiven /\ args.sasfiles
PathNamesNothing ==
    /\ Given(args.sas_odf) /\ IsFile(fs0, args.sas_odf[1])
    /\ \E i \in DOMAIN fs0[args.sas_odf[1]].body :
          LET line == fs0[args.sas_odf[1]].body[i]
          IN  HasPath(line) /\ Len(line) = 2 /\ ~Exists(fs0, line[2])
\* C10: with pre-staged files whose summary file has a PATH that names no
\* existing directory, the run ends in an error and neither SAS_CCF nor
\* SAS_ODF has been written.
C10_NoExportBeforePathCheck ==
    (StagedMode /\ PathNamesNothing)
    => /\ ~EnvWritten
       /\ pc = "done" => outcome # "ok"

Supplied(o) == Given(o) /\ IsAbs(o[1]) /\ IsFile(fs0, o[1])
\* C11: with pre-staged files, a sas_ccf or sas_odf that is not absolute or
\* names a file that does not exist makes the run end in an error, and neither
\* SAS_CCF nor SAS_ODF holds the supplied value.
C11_StagedPathsValidated ==
    (StagedMode /\ Given(args.sas_ccf) /\ Given(args.sas_odf)
     /\ (~Supplied(args.sas_ccf) \/ ~Supplied(args.sas_odf)))
    => /\ pc = "done" => outcome # "ok"
       /\ environ["SAS_CCF"] # args.sas_ccf
       /\ environ["SAS_ODF"] # args.sas_odf

\* the summary file's PATH lines name an existing directory that holds a MANIFEST
PathNamesOdf ==
    /\ \E i \in DOMAIN fs0[args.sas_odf[1]].body : HasPath(fs0[args.sas_odf[1]].body[i])
    /\ \A i \in DOMAIN fs0[args.sas_odf[1]].body :
          LET line == fs0[args.sas_odf[1]].body[i]
          IN  HasPath(line) => /\ Len(line) = 2
                               /\ IsDir(fs0, line[2])
                               /\ GlobManifest(fs0, line[2]) # {}
StagedFilesGood ==
    /\ args.sasfiles /\ Supplied(args.sas_ccf) /\ Supplied(args.sas_odf)
    /\ IsSumSas(Last(args.sas_odf[1]))
    /\ PathNamesOdf
    /\ ~PrereqUnset /\ args.level \in {"ODF", "PPS", "ALL"}
\* C12: a call with odfid left at None, sasfiles true, both paths absolute and
\* existing, the summary file named *SUM.SAS and its PATH naming an existing
\* directory with a MANIFEST ends successfully with SAS_CCF = sas_ccf and
\* SAS_ODF = sas_odf, having made no observation directory and run no
\* download, decryption or calibration.
C12_StagedDefaultId ==
    (args.odfid = None /\ StagedFilesGood /\ pc = "done")
    => /\ outcome = "ok"
       /\ environ["SAS_CCF"] = args.sas_ccf
       /\ environ["SAS_ODF"] = args.sas_odf
       /\ ~Happened({"rmtree", "remove", "download", "extract", "run"})
       /\ \A i \in DOMAIN log : log[i].op = "mkdir" => log[i].arg = Base0

\* the key files of the claim: regular files of the base directory whose name
\* holds the odfid, or else 'key'
NamedFiles0(w) == {p \in GlobWord(fs0, Base0, w) : IsFile(fs0, p)}
KeyFiles0 == IF NamedFiles0("0123") # {} THEN NamedFiles0("0123") ELSE NamedFiles0("key")
KeyErrors == {"AmbiguousKey", "NoKeyFound", "TypeError", "FileNotFoundError", "IndexError"}
\* C13: when encrypted files are found and no encryption_key was given: with
\* exactly one candidate key file in the base directory (name holding the
\* odfid, or else 'key') its first line becomes the key and decryption goes
\* on; with several the run ends in the ambiguity error; with none it ends in
\* the not-found error.
C13_KeyResolution ==
    (IdGiven /\ args.encryption_key = None /\ encrypted # {} /\ pc # "decrypt")
    => /\ Cardinality(KeyFiles0) = 1
          => /\ \A k \in KeyFiles0 : encryption_key = Some(fs0[k].body[1][1])
             /\ outcome \notin KeyErrors
       /\ Cardinality(KeyFiles0) > 1 => pc = "done" /\ outcome = "AmbiguousKey"
       /\ Cardinality(KeyFiles0) = 0 => pc = "done" /\ outcome = "NoKeyFound"

\* C15: for the sources esa, heasarc and sciserver, a run for <odfid> leaves
\* every file and directory outside <base>/<odfid> as it was: nothing of
\* another observation under <base> is removed, decrypted, decompressed or
\* extracted, and nothing is written next to it.
C15_OtherObservationsUntouched ==
    (IdGiven /\ args.repo \in {"esa", "heasarc", "sciserver"})
    => /\ \A p \in DOMAIN fs0 : ~IsPrefix(Obs0, p) => p \in DOMAIN fs /\ fs[p] = fs0[p]
       /\ \A p \in DOMAIN fs : (~IsPrefix(Obs0, p) /\ p \notin DOMAIN fs0) => p = Base0
       /\ \A i \in DOMAIN log : log[i].op \in {"remove", "rmtree", "extract"}
                                     => IsPrefix(Obs0, log[i].arg)

\* what the decryption loop did in one step: the events it added
NewEvents == SubSeq(log', Len(log) + 1, Len(log'))
GpgRun(file, rc) == EvRc("run", <<Nm("gpg")>> \o file, rc)
Skipped(file) ==
    /\ Exists(fs, StripExt(file))
    /\ NewEvents = <<>> /\ fs' = fs
    /\ encrypted' = encrypted \ {file}
DecryptFailed(file) ==
    /\ ~Exists(fs, StripExt(file))
    /\ \E rc \in {1, 2} : NewEvents = <<GpgRun(file, rc)>>
    /\ pc' = "done" /\ outcome' = "DecryptError"
    /\ fs' = fs
Decrypted(file) ==
    /\ ~Exists(fs, StripExt(file))
    /\ NewEvents = <<GpgRun(file, 0), Ev("remove", file)>>
    /\ ~Exists(fs', file) /\ Exists(fs', StripExt(file))
    /\ encrypted' = encrypted \ {file}
    /\ outcome' = outcome
DecryptLoopStep ==
    pc = "decrypt_loop"
    => \E file \in encrypted : Skipped(file) \/ DecryptFailed(file) \/ Decrypted(file)
GpgRanFor(file) == \E i \in DOMAIN log : log[i].op = "run" /\ log[i].arg = <<Nm("gpg")>> \o file
\* C16 as stated: every X.gpg found is skipped when X exists, and otherwise
\* decrypted, a non-zero exit ending the run with X.gpg in place and a zero
\* exit being followed by the removal of X.gpg; so that after a normalization
\* that completed without error no X.gpg is left under the observation
\* directory.
C16_NoEncryptedLeft ==
    /\ [][DecryptLoopStep]_vars
    /\ []((IdGiven /\ pc = "calibrate") => Glob(fs, Obs0, "gpg") = {})
\* C16, amended: the steps of the loop are as stated, and when the loop ends
\* without error the X.gpg left under the observation directory are exactly
\* the skipped ones: X exists and the tool was not run for X.gpg.
C16_OnlySkippedLeft ==
    /\ [][DecryptLoopStep]_vars
    /\ []((IdGiven /\ pc = "gunzip")
            => \A p \in Glob(fs, Obs0, "gpg") : Exists(fs, StripExt(p)) /\ ~GpgRanFor(p))
C16_Witness ==
    /\ IdGiven /\ pc = "gunzip"
    /\ Glob(fs, Obs0, "gpg") # {}
    /\ LET p == Odf0 \o <<Gpg2Name>>
       IN  GpgRanFor(p) /\ ~Exists(fs, p) /\ Exists(fs, StripExt(p))

\* C14: inisas called twice with the same arguments, LHEASOFT being set,
\* leaves every environment variable after the second call as it was after
\* the first (so the second call adds no duplicate entry).
C14_InisasIdempotent ==
    (Len(log) = 2 /\ ~IniFalsy(environ["LHEASOFT"]))
    => log[2].arg = log[1].arg

\* C17: after a successful inisas call SAS_DIR and SAS_CCFPATH are exactly the
\* supplied sas_dir and sas_ccfpath, whatever they were set to before; a
\* failed call (LHEASOFT unset, sas_dir or sas_ccfpath None) changes no
\* environment variable.
C17_InisasScalars ==
    /\ [](\A i \in DOMAIN log : log[i].rc = 0 =>
             /\ log[i].arg["SAS_DIR"] = args.sas_dir
             /\ log[i].arg["SAS_CCFPATH"] = args.sas_ccfpath)
    /\ [][(pc = "ini_check" /\ outcome' \in {"InitError", "ConfigError"})
             => environ' = environ]_vars

====
